---- MODULE Spec2Model ----
(***************************************************************************)
(* Model of the training pipeline of the bilingual complaint system:       *)
(*   - train/components/hf_model_test.py : test_huggingface_model_component *)
(*     (one invocation, as a sequence of code segments);                    *)
(*   - train/submit_train_pipeline.py    : training_pipeline (the task DAG  *)
(*     the pipeline function declares, run by the pipeline platform).       *)
(* Scores are exact rationals scaled by Scale, so that comparisons and      *)
(* equalities of precision / recall / F1 are the ones of the real values.   *)
(***************************************************************************)
EXTENDS Integers, Sequences, FiniteSets, TLC

\* ------------------------------------------------------------------ bounds
MaxLabels == 2
MaxSamples == 2
MaxModels == 2
MaxScore == 2
MaxCandidates == 3

\* ------------------------------------------------------------- Python values
None == "None"

LabelPool == <<"credit_card", "mortgage", "student_loan", "debt_collection", "money_transfer">>
LabelNames == {LabelPool[i] : i \in 1..MaxLabels}

Range(s) == {s[i] : i \in DOMAIN s}

SeqsUpTo(S, lo, hi) == UNION {[1..n -> S] : n \in lo..hi}

InjectiveSeqs(S, lo, hi) ==
    {s \in SeqsUpTo(S, lo, hi) : \A i, j \in DOMAIN s : s[i] = s[j] => i = j}

RECURSIVE GCD(_, _)
GCD(a, b) == IF b = 0 THEN a ELSE GCD(b, a % b)

RECURSIVE LCMUpTo(_)
LCMUpTo(n) == IF n <= 1 THEN 1 ELSE (LCMUpTo(n - 1) * n) \div GCD(LCMUpTo(n - 1), n)

\* Every score of a test set of at most MaxSamples samples is k / Scale.
Scale == LCMUpTo(2 * MaxSamples) * LCMUpTo(MaxSamples)

RECURSIVE SumOver(_, _)
SumOver(f, S) ==
    IF S = {} THEN 0
    ELSE LET x == CHOOSE y \in S : TRUE IN f[x] + SumOver(f, S \ {x})

\* The elements of a finite set of integers, ascending.
RECURSIVE SortedSeq(_)
SortedSeq(S) ==
    IF S = {} THEN <<>>
    ELSE LET m == CHOOSE x \in S : \A y \in S : x <= y
         IN <<m>> \o SortedSeq(S \ {m})

\* ---------------------------------------------------------------- dicts
\* A Python dict is the sequence of its <<key, value>> items in insertion order.
DictKeys(d) == [p \in DOMAIN d |-> d[p][1]]
DictValues(d) == [p \in DOMAIN d |-> d[p][2]]
DictGet(d, key) ==
    IF \E p \in DOMAIN d : d[p][1] = key
    THEN d[CHOOSE p \in DOMAIN d : d[p][1] = key][2]
    ELSE None

\* label_2_idx_map = {label: idx for idx, label in enumerate(unique_label_values)}
label_2_idx_map(unique_label_values) ==
    [p \in DOMAIN unique_label_values |-> <<unique_label_values[p], p - 1>>]

\* idx_2_label_map = {v: k for k, v in label_map.items()}
idx_2_label_map(lmap) == [p \in DOMAIN lmap |-> <<lmap[p][2], lmap[p][1]>>]

\* ------------------------------------------------- sklearn.metrics (as called)
Count(S) == Cardinality(S)
Samples(y) == DOMAIN y

\* unique_labels(y_true, y_pred): the labels that occur, ascending. It is the
\* label set the per-label scores are computed over when labels= is not given.
unique_labels(yt, yp) == SortedSeq(Range(yt) \cup Range(yp))

TruePositives(yt, yp, l) == Count({k \in Samples(yt) : yt[k] = l /\ yp[k] = l})
PredictedCount(yp, l) == Count({k \in Samples(yp) : yp[k] = l})
Support(yt, l) == Count({k \in Samples(yt) : yt[k] = l})

\* Per-label scores, scaled by Scale; zero_division yields 0.
PrecisionOf(yt, yp, l) ==
    IF PredictedCount(yp, l) = 0 THEN 0
    ELSE (Scale * TruePositives(yt, yp, l)) \div PredictedCount(yp, l)
RecallOf(yt, yp, l) ==
    IF Support(yt, l) = 0 THEN 0
    ELSE (Scale * TruePositives(yt, yp, l)) \div Support(yt, l)
F1Of(yt, yp, l) ==
    IF Support(yt, l) + PredictedCount(yp, l) = 0 THEN 0
    ELSE (Scale * 2 * TruePositives(yt, yp, l)) \div (Support(yt, l) + PredictedCount(yp, l))

\* average='weighted': the per-label scores weighted by support.
Weighted(yt, yp, perLabel) ==
    LET ls == Range(yt) \cup Range(yp)
        w == [l \in ls |-> Support(yt, l) * perLabel[l]]
    IN SumOver(w, ls) \div Len(yt)

\* average=None: one score per label of unique_labels(y_true, y_pred).
PerLabel(yt, yp, perLabel) ==
    LET ls == unique_labels(yt, yp) IN [i \in DOMAIN ls |-> perLabel[ls[i]]]

precision_score(yt, yp, average) ==
    LET v == [l \in Range(yt) \cup Range(yp) |-> PrecisionOf(yt, yp, l)]
    IN IF average = "weighted" THEN Weighted(yt, yp, v) ELSE PerLabel(yt, yp, v)
recall_score(yt, yp, average) ==
    LET v == [l \in Range(yt) \cup Range(yp) |-> RecallOf(yt, yp, l)]
    IN IF average = "weighted" THEN Weighted(yt, yp, v) ELSE PerLabel(yt, yp, v)
f1_score(yt, yp, average) ==
    LET v == [l \in Range(yt) \cup Range(yp) |-> F1Of(yt, yp, l)]
    IN IF average = "weighted" THEN Weighted(yt, yp, v) ELSE PerLabel(yt, yp, v)

\* confusion_matrix(y_true, y_pred, labels=labels): cell [i][j] counts the samples
\* whose true label is labels[i] and whose prediction is labels[j]; a sample with
\* a label outside labels is not counted.
confusion_matrix(yt, yp, labels) ==
    [i \in DOMAIN labels |->
        [j \in DOMAIN labels |->
            Count({k \in Samples(yt) : yt[k] = labels[i] /\ yp[k] = labels[j]})]]

\* ================================================================ component
\* test_huggingface_model_component, one invocation.
VARIABLES
    pc,                      \* the segment of the function body to run next
    label_map,               \* parameter label_map (name -> index), a dict
    slack_url,               \* parameter slack_url: None, "" or a webhook url
    fault,                   \* where the environment makes this run raise, if anywhere
    y_true, y_pred,          \* the labels of the test set and the model's predictions
    scores,                  \* precision, recall, f1 and the per-label arrays
    metric,                  \* Output[Metrics]: the scalars logged with log_metric
    classification_metrics,  \* what aiplatform.log_classification_metrics received
    metrics_artifact,        \* the JSON record written at metrics_artifact.path
    notifications,           \* the webhook posts attempted, in order
    exc,                     \* the exception caught by the except clause
    returned,                \* the returned Outputs tuple
    raised                   \* the exception the invocation ended with

componentVars ==
    <<pc, label_map, slack_url, fault, y_true, y_pred, scores, metric,
      classification_metrics, metrics_artifact, notifications, exc, returned, raised>>

huggingface_model_name == "bert-base-multilingual-cased"
WebhookUrl == "https://hooks.slack.example/T0/B0"
SlackUrls == {None, "", WebhookUrl}
Faults == {"none", "setup", "evaluate", "log", "end_run"}

\* Python truthiness of an optional string: None and "" are falsy.
Truthy(x) == x # None /\ x # ""

\* send_slack_message without its try/except: a failed post raises to the caller.
send_slack_message_propagating(webhook_url, message_str, is_success, transport_ok) ==
    [ message |->
        [ webhook_url |-> webhook_url,
          color |-> IF is_success THEN "#36a64f" ELSE "FF0000",
          marker |-> IF is_success THEN ":large_green_circle:" ELSE ":large_red_circle:",
          message_str |-> message_str,
          component |-> "Get Data KubeFlow Component",
          delivered |-> transport_ok ],
      raises |-> ~transport_ok ]

\* send_slack_message: builds the message and posts it once. transport_ok is the
\* outcome of requests.post / raise_for_status; a RequestException is caught and
\* printed, so the call never raises.
send_slack_message(webhook_url, message_str, is_success, transport_ok) ==
    [ message |->
        [ webhook_url |-> webhook_url,
          color |-> IF is_success THEN "#36a64f" ELSE "FF0000",
          marker |-> IF is_success THEN ":large_green_circle:" ELSE ":large_red_circle:",
          message_str |-> message_str,
          component |-> "Get Data KubeFlow Component",
          delivered |-> transport_ok ],
      raises |-> FALSE ]

\* The three calls of send_slack_message in the body, with the arguments given there.
NotifyStartedCall(ok) == send_slack_message(slack_url, "started", TRUE, ok)
NotifySuccessCall(ok) == send_slack_message(slack_url, "Successfully Tested", TRUE, ok)
NotifyFailureCall(ok) == send_slack_message(slack_url, "Failed to Test", TRUE, ok)

\* The position of a label name in LabelPool: the order sorting the names gives.
NameRank(name) == CHOOSE r \in DOMAIN LabelPool : LabelPool[r] = name

\* The names of S in sorted order.
RECURSIVE SortedNames(_)
SortedNames(S) ==
    IF S = {} THEN <<>>
    ELSE LET m == CHOOSE x \in S : \A y \in S : NameRank(x) <= NameRank(y)
         IN <<m>> \o SortedNames(S \ {m})

\* ClassificationMetrics with confusion_matrix called without labels=: the matrix
\* covers only the labels that occur, sorted.
ClassificationMetricsObserved(lmap, yt, yp) ==
    LET i2l == idx_2_label_map(lmap)
        y_true_decoded == [k \in DOMAIN yt |-> DictGet(i2l, yt[k])]
        y_pred_decoded == [k \in DOMAIN yp |-> DictGet(i2l, yp[k])]
        labels == SortedNames(Range(y_true_decoded) \cup Range(y_pred_decoded))
    IN [ matrix |-> confusion_matrix(y_true_decoded, y_pred_decoded, labels),
         labels |-> labels ]

\* classification_metrics = {"matrix": confusion_matrix(decoded true, decoded
\* predictions, labels=list(idx_2_label_map.values())), "labels": the same list}
ClassificationMetrics(lmap, yt, yp) ==
    LET i2l == idx_2_label_map(lmap)
        y_true_decoded == [k \in DOMAIN yt |-> DictGet(i2l, yt[k])]
        y_pred_decoded == [k \in DOMAIN yp |-> DictGet(i2l, yp[k])]
        labels == DictValues(i2l)
    IN [ matrix |-> confusion_matrix(y_true_decoded, y_pred_decoded, labels),
         labels |-> labels ]

\* The aggregate and the per-label scores, as computed at lines 171-177.
ComputeScores(yt, yp) ==
    [ precision |-> precision_score(yt, yp, "weighted"),
      recall |-> recall_score(yt, yp, "weighted"),
      f1 |-> f1_score(yt, yp, "weighted"),
      precision_per_label |-> precision_score(yt, yp, None),
      recall_per_label |-> recall_score(yt, yp, None),
      f1_per_label |-> f1_score(yt, yp, None) ]

\* metrics_information, the record logged and dumped as JSON.
MetricsInformation(sc) ==
    [ huggingface_model_name |-> huggingface_model_name,
      precision |-> sc.precision, recall |-> sc.recall, f1 |-> sc.f1,
      precision_per_label |-> sc.precision_per_label,
      recall_per_label |-> sc.recall_per_label,
      f1_per_label |-> sc.f1_per_label ]

NoScores == [ precision |-> 0, recall |-> 0, f1 |-> 0, precision_per_label |-> <<>>,
              recall_per_label |-> <<>>, f1_per_label |-> <<>> ]
NoRecord == [ huggingface_model_name |-> None ]
NoMatrix == [ matrix |-> <<>>, labels |-> <<>> ]

\* The label maps the pipeline passes: built by enumerate() over the configured
\* list of unique label values.
LabelMaps == {label_2_idx_map(u) : u \in InjectiveSeqs(LabelNames, 1, MaxLabels)}

\* The test sets: at least one sample, true labels and predictions (argmax over
\* num_labels = len(label_map) logits) are indices of the label map.
TestSets(lmap) ==
    LET idx == Range(DictValues(lmap))
    IN UNION {[1..n -> idx] \X [1..n -> idx] : n \in 1..MaxSamples}

ComponentIdle ==
    /\ pc = "idle"
    /\ label_map = <<>>
    /\ slack_url = None
    /\ fault = "none"
    /\ y_true = <<>> /\ y_pred = <<>>
    /\ scores = NoScores
    /\ metric = <<>>
    /\ classification_metrics = NoMatrix
    /\ metrics_artifact = NoRecord
    /\ notifications = <<>>
    /\ exc = None /\ returned = None /\ raised = None

ComponentInit ==
    /\ pc = "entry"
    /\ label_map \in LabelMaps
    /\ slack_url \in SlackUrls
    /\ fault \in Faults
    /\ y_true = <<>> /\ y_pred = <<>>
    /\ scores = NoScores
    /\ metric = <<>>
    /\ classification_metrics = NoMatrix
    /\ metrics_artifact = NoRecord
    /\ notifications = <<>>
    /\ exc = None /\ returned = None /\ raised = None

\* Lines 115-123: experiment set-up, outside the try block.
Setup ==
    /\ pc = "entry"
    /\ IF fault = "setup"
       THEN pc' = "raised" /\ raised' = "SetupError"
       ELSE pc' = "try" /\ UNCHANGED raised
    /\ UNCHANGED <<label_map, slack_url, fault, y_true, y_pred, scores, metric,
                   classification_metrics, metrics_artifact, notifications, exc, returned>>

\* Lines 135-140: the 'started' notification.
NotifyStarted ==
    /\ pc = "try"
    /\ IF Truthy(slack_url)
       THEN \E ok \in BOOLEAN :
              LET r == NotifyStartedCall(ok)
              IN /\ notifications' = Append(notifications, r.message)
                 /\ IF r.raises
                    THEN pc' = "except" /\ exc' = "RequestException"
                    ELSE pc' = "evaluate" /\ UNCHANGED exc
       ELSE pc' = "evaluate" /\ UNCHANGED <<notifications, exc>>
    /\ UNCHANGED <<label_map, slack_url, fault, y_true, y_pred, scores, metric,
                   classification_metrics, metrics_artifact, returned, raised>>

\* Lines 142-177: load the data and the model, predict, compute the scores.
Evaluate ==
    /\ pc = "evaluate"
    /\ IF fault = "evaluate"
       THEN /\ pc' = "except" /\ exc' = "ProcessingError"
            /\ UNCHANGED <<y_true, y_pred, scores, classification_metrics>>
       ELSE \E d \in TestSets(label_map) :
              /\ y_true' = d[1]
              /\ y_pred' = d[2]
              /\ classification_metrics' = ClassificationMetrics(label_map, d[1], d[2])
              /\ scores' = ComputeScores(d[1], d[2])
              /\ pc' = "persist"
              /\ UNCHANGED exc
    /\ UNCHANGED <<label_map, slack_url, fault, metric, metrics_artifact,
                   notifications, returned, raised>>

\* Lines 179-207: log the scalars, log the confusion matrix and the record, write
\* the JSON record, end the run. A failing sink raises before the record is
\* written; a failing end_run raises after.
Persist ==
    /\ pc = "persist"
    /\ metric' = << <<"precision", scores.precision>>, <<"recall", scores.recall>>,
                    <<"f1", scores.f1>> >>
    /\ IF fault = "log"
       THEN /\ pc' = "except" /\ exc' = "SinkError"
            /\ UNCHANGED metrics_artifact
       ELSE /\ metrics_artifact' = MetricsInformation(scores)
            /\ IF fault = "end_run"
               THEN pc' = "except" /\ exc' = "EndRunError"
               ELSE pc' = "notify_success" /\ UNCHANGED exc
    /\ UNCHANGED <<label_map, slack_url, fault, y_true, y_pred, scores,
                   classification_metrics, notifications, returned, raised>>

\* Lines 209-214: the 'Successfully Tested' notification.
NotifySuccess ==
    /\ pc = "notify_success"
    /\ IF Truthy(slack_url)
       THEN \E ok \in BOOLEAN :
              LET r == NotifySuccessCall(ok)
              IN /\ notifications' = Append(notifications, r.message)
                 /\ IF r.raises
                    THEN pc' = "except" /\ exc' = "RequestException"
                    ELSE pc' = "return" /\ UNCHANGED exc
       ELSE pc' = "return" /\ UNCHANGED <<notifications, exc>>
    /\ UNCHANGED <<label_map, slack_url, fault, y_true, y_pred, scores, metric,
                   classification_metrics, metrics_artifact, returned, raised>>

\* Lines 216-217: return output(precision, recall, f1).
Return ==
    /\ pc = "return"
    /\ returned' = <<scores.precision, scores.recall, scores.f1>>
    /\ pc' = "returned"
    /\ UNCHANGED <<label_map, slack_url, fault, y_true, y_pred, scores, metric,
                   classification_metrics, metrics_artifact, notifications, exc, raised>>

\* The except clause without its notification: it only re-raises.
HandleExceptionSilently ==
    /\ pc = "except"
    /\ raised' = exc
    /\ pc' = "raised"
    /\ UNCHANGED <<label_map, slack_url, fault, y_true, y_pred, scores, metric,
                   classification_metrics, metrics_artifact, notifications, exc, returned>>

\* Lines 219-227: the except clause: notify, then raise e.
HandleException ==
    /\ pc = "except"
    /\ IF Truthy(slack_url)
       THEN \E ok \in BOOLEAN :
              LET r == NotifyFailureCall(ok)
              IN /\ notifications' = Append(notifications, r.message)
                 /\ raised' = IF r.raises THEN "RequestException" ELSE exc
       ELSE raised' = exc /\ UNCHANGED notifications
    /\ pc' = "raised"
    /\ UNCHANGED <<label_map, slack_url, fault, y_true, y_pred, scores, metric,
                   classification_metrics, metrics_artifact, exc, returned>>

\* ================================================================= pipeline
\* training_pipeline: the tasks it declares, run by the pipeline platform. A task
\* runs once every task whose output it consumes has succeeded; it succeeds or
\* fails; the N branches of the ParallelFor advance in any interleaving.
VARIABLES
    model_names,                \* model_params["model_names"], the ParallelFor items
    deploy_params,              \* deploy flag and the f1_score threshold
    get_data_component_task,
    train_data_prep_task,       \* per branch
    test_data_prep_task,        \* per branch
    train_task,                 \* per branch
    test_task,                  \* per branch
    finish_order,               \* the branches, in the order their test task succeeded
    best_model_selection_task,
    bias_detection_task,
    conditional_deployment,     \* the dsl.If node: "absent", "pending", "true", "false"
    registry_task,
    deployment_task

pipelineVars ==
    <<model_names, deploy_params, get_data_component_task, train_data_prep_task,
      test_data_prep_task, train_task, test_task, finish_order,
      best_model_selection_task, bias_detection_task, conditional_deployment,
      registry_task, deployment_task>>

vars == <<componentVars, pipelineVars>>

ModelPool == <<"bert-base-multilingual-cased", "distilbert-base-multilingual-cased",
               "xlm-roberta-base", "google-bert/bert-base-uncased">>
Branches == DOMAIN model_names

Pending == [status |-> "pending"]
Failed == [status |-> "failed"]
Succeeded(t) == t.status = "succeeded"
Ran(t) == t.status # "pending"

\* The artifact a task instance produced: its kind and the branch that made it.
Artifact(kind, i) == [artifact |-> kind, branch |-> i]

\* deploy_params.get("deploy") == True
PyEqTrue(x) == x = "True"
DeployFlags == {"True", "False", None}

\* ---- select_best_model (components/select_best_model.py): index-wise fold over
\* the metrics records, keeping the first record with the strictly greatest f1.
\* select_best_model keeping the last of several records with the greatest f1.
RECURSIVE LastBestIndex(_, _, _)
LastBestIndex(records, i, best) ==
    IF i > Len(records) THEN best
    ELSE LastBestIndex(records, i + 1,
                       IF records[i]["f1"] >= records[best]["f1"] THEN i ELSE best)

select_best_model_last_wins(metrics_artifacts, test_datasets, models) ==
    IF Len(metrics_artifacts) = 0
    THEN [status |-> "failed", error |-> "no candidates"]
    ELSE IF \E i \in DOMAIN metrics_artifacts : "f1" \notin DOMAIN metrics_artifacts[i]
    THEN [status |-> "failed", error |-> "missing f1"]
    ELSE LET b == LastBestIndex(metrics_artifacts, 1, 1)
         IN [ status |-> "succeeded",
              best_model_name |-> metrics_artifacts[b]["huggingface_model_name"],
              best_model |-> models[b],
              best_model_test_data |-> test_datasets[b],
              best_f1_score |-> metrics_artifacts[b]["f1"] ]

\* select_best_model reading a missing f1 as 0 (record.get("f1", 0)) and starting
\* from a placeholder winner with score 0.
F1OrZero(r) == IF "f1" \in DOMAIN r THEN r["f1"] ELSE 0

RECURSIVE DefaultingBestIndex(_, _, _)
DefaultingBestIndex(records, i, best) ==
    IF i > Len(records) THEN best
    ELSE DefaultingBestIndex(records, i + 1,
            IF best = 0 \/ F1OrZero(records[i]) > F1OrZero(records[best]) THEN i ELSE best)

select_best_model_defaulting(metrics_artifacts, test_datasets, models) ==
    LET b == DefaultingBestIndex(metrics_artifacts, 1, 0)
    IN IF b = 0
       THEN [ status |-> "succeeded", best_model_name |-> None,
              best_model |-> [artifact |-> None],
              best_model_test_data |-> [artifact |-> None], best_f1_score |-> 0 ]
       ELSE [ status |-> "succeeded",
              best_model_name |-> metrics_artifacts[b]["huggingface_model_name"],
              best_model |-> models[b],
              best_model_test_data |-> test_datasets[b],
              best_f1_score |-> F1OrZero(metrics_artifacts[b]) ]

RECURSIVE BestIndex(_, _, _)
BestIndex(records, i, best) ==
    IF i > Len(records) THEN best
    ELSE BestIndex(records, i + 1,
                   IF records[i]["f1"] > records[best]["f1"] THEN i ELSE best)

select_best_model(metrics_artifacts, test_datasets, models) ==
    IF Len(metrics_artifacts) = 0
    THEN [status |-> "failed", error |-> "no candidates"]
    ELSE IF \E i \in DOMAIN metrics_artifacts : "f1" \notin DOMAIN metrics_artifacts[i]
    THEN [status |-> "failed", error |-> "missing f1"]
    ELSE LET b == BestIndex(metrics_artifacts, 1, 1)
         IN [ status |-> "succeeded",
              best_model_name |-> metrics_artifacts[b]["huggingface_model_name"],
              best_model |-> models[b],
              best_model_test_data |-> test_datasets[b],
              best_f1_score |-> metrics_artifacts[b]["f1"] ]

\* An output a task has not produced is no artifact.
NoArtifact == [artifact |-> None]
Output(t, output) == IF output \in DOMAIN t THEN t[output] ELSE NoArtifact

\* Collected gathering the outputs of the test tasks in the order the tasks
\* finished instead of in iteration order.
CollectedInCompletionOrder(task, output) ==
    IF task = test_task /\ Len(finish_order) = Len(model_names)
    THEN [k \in Branches |-> Output(task[finish_order[k]], output)]
    ELSE [i \in Branches |-> Output(task[i], output)]

\* dsl.Collected(<task>.outputs[<output>]): the output of every iteration of the
\* ParallelFor, as a list in iteration order.
Collected(task, output) == [i \in Branches |-> Output(task[i], output)]

\* The reducer waiting for one finished branch only.
ReducerReadyOnAnyBranch ==
    Branches # {} => \E i \in Branches : Succeeded(test_task[i]) /\ Succeeded(test_data_prep_task[i])

\* The reducer consumes three Collected lists: it is ready once every iteration's
\* test task and holdout data-prep task have succeeded.
ReducerReady ==
    \A i \in Branches : Succeeded(test_task[i]) /\ Succeeded(test_data_prep_task[i])

\* The threshold comparison with >= instead of >.
DeployConditionInclusive(best_f1_score, threshold) == best_f1_score >= threshold

\* best_f1_score > deploy_params["performance_score_thresholds"]["f1_score"]
DeployCondition(best_f1_score, threshold) == best_f1_score > threshold

PipelineIdle ==
    /\ model_names = <<>>
    /\ deploy_params = [deploy |-> None, f1_score |-> 0]
    /\ get_data_component_task = Pending
    /\ train_data_prep_task = <<>>
    /\ test_data_prep_task = <<>>
    /\ train_task = <<>>
    /\ test_task = <<>>
    /\ finish_order = <<>>
    /\ best_model_selection_task = Pending
    /\ bias_detection_task = Pending
    /\ conditional_deployment = "absent"
    /\ registry_task = Pending
    /\ deployment_task = Pending

PipelineInit ==
    /\ model_names \in {SubSeq(ModelPool, 1, n) : n \in 0..MaxModels}
    /\ deploy_params \in [deploy : DeployFlags, f1_score : 0..MaxScore]
    /\ get_data_component_task = Pending
    /\ train_data_prep_task = [i \in Branches |-> Pending]
    /\ test_data_prep_task = [i \in Branches |-> Pending]
    /\ train_task = [i \in Branches |-> Pending]
    /\ test_task = [i \in Branches |-> Pending]
    /\ finish_order = <<>>
    /\ best_model_selection_task = Pending
    /\ bias_detection_task = Pending
    \* 'if deploy_params.get("deploy") == True:' decides, when the pipeline function
    \* is traced, whether the conditional block is part of the pipeline at all.
    /\ conditional_deployment = IF PyEqTrue(deploy_params.deploy) THEN "pending" ELSE "absent"
    /\ registry_task = Pending
    /\ deployment_task = Pending

\* Lines 39-50.
GetData ==
    /\ get_data_component_task = Pending
    /\ \E ok \in BOOLEAN :
         get_data_component_task' =
            IF ok THEN [status |-> "succeeded", train_data |-> Artifact("train_data", 0),
                        holdout_data |-> Artifact("holdout_data", 0)]
            ELSE Failed
    /\ UNCHANGED <<model_names, deploy_params, train_data_prep_task, test_data_prep_task,
                   train_task, test_task, finish_order, best_model_selection_task,
                   bias_detection_task, conditional_deployment, registry_task,
                   deployment_task>>

\* Lines 55-67.
TrainDataPrep(i) ==
    /\ train_data_prep_task[i] = Pending
    /\ Succeeded(get_data_component_task)
    /\ \E ok \in BOOLEAN :
         train_data_prep_task' = [train_data_prep_task EXCEPT ![i] =
            IF ok THEN [status |-> "succeeded", tf_dataset |-> Artifact("train_tf_dataset", i)]
            ELSE Failed]
    /\ UNCHANGED <<model_names, deploy_params, get_data_component_task, test_data_prep_task,
                   train_task, test_task, finish_order, best_model_selection_task,
                   bias_detection_task, conditional_deployment, registry_task,
                   deployment_task>>

\* Lines 69-81.
TestDataPrep(i) ==
    /\ test_data_prep_task[i] = Pending
    /\ Succeeded(get_data_component_task)
    /\ \E ok \in BOOLEAN :
         test_data_prep_task' = [test_data_prep_task EXCEPT ![i] =
            IF ok THEN [status |-> "succeeded", tf_dataset |-> Artifact("holdout_tf_dataset", i)]
            ELSE Failed]
    /\ UNCHANGED <<model_names, deploy_params, get_data_component_task, train_data_prep_task,
                   train_task, test_task, finish_order, best_model_selection_task,
                   bias_detection_task, conditional_deployment, registry_task,
                   deployment_task>>

\* Lines 83-92.
Train(i) ==
    /\ train_task[i] = Pending
    /\ Succeeded(train_data_prep_task[i])
    /\ \E ok \in BOOLEAN :
         train_task' = [train_task EXCEPT ![i] =
            IF ok THEN [status |-> "succeeded", model_output |-> Artifact("model_output", i)]
            ELSE Failed]
    /\ UNCHANGED <<model_names, deploy_params, get_data_component_task, train_data_prep_task,
                   test_data_prep_task, test_task, finish_order, best_model_selection_task,
                   bias_detection_task, conditional_deployment, registry_task,
                   deployment_task>>

\* Lines 94-106: one run of test_huggingface_model_component for branch i. A run
\* that returns has written its JSON record (with the f1 it returns) and passed
\* the model through (reusable_model.uri = model.uri); a run that raises fails
\* the task.
Test(i) ==
    /\ test_task[i] = Pending
    /\ Succeeded(test_data_prep_task[i])
    /\ Succeeded(train_task[i])
    /\ \/ \E f \in 0..MaxScore :
            /\ test_task' = [test_task EXCEPT ![i] =
                 [ status |-> "succeeded",
                   metrics_artifact |-> [huggingface_model_name |-> model_names[i], f1 |-> f],
                   reusable_model |-> train_task[i].model_output,
                   f1_score |-> f ]]
            /\ finish_order' = Append(finish_order, i)
       \/ /\ test_task' = [test_task EXCEPT ![i] = Failed]
          /\ UNCHANGED finish_order
    /\ UNCHANGED <<model_names, deploy_params, get_data_component_task, train_data_prep_task,
                   test_data_prep_task, train_task, best_model_selection_task,
                   bias_detection_task, conditional_deployment, registry_task,
                   deployment_task>>

\* Lines 108-115: fan-in and select_best_model.
SelectBestModel ==
    /\ best_model_selection_task = Pending
    /\ ReducerReady
    /\ best_model_selection_task' =
         select_best_model(Collected(test_task, "metrics_artifact"),
                           Collected(test_data_prep_task, "tf_dataset"),
                           Collected(test_task, "reusable_model"))
    /\ UNCHANGED <<model_names, deploy_params, get_data_component_task, train_data_prep_task,
                   test_data_prep_task, train_task, test_task, finish_order,
                   bias_detection_task, conditional_deployment, registry_task,
                   deployment_task>>

\* Lines 117-126.
BiasDetection ==
    /\ bias_detection_task = Pending
    /\ Succeeded(best_model_selection_task)
    /\ \E ok \in BOOLEAN :
         bias_detection_task' =
            IF ok THEN [status |-> "succeeded",
                        model |-> best_model_selection_task.best_model,
                        test_data |-> best_model_selection_task.best_model_test_data]
            ELSE Failed
    /\ UNCHANGED <<model_names, deploy_params, get_data_component_task, train_data_prep_task,
                   test_data_prep_task, train_task, test_task, finish_order,
                   best_model_selection_task, conditional_deployment, registry_task,
                   deployment_task>>

\* Lines 130-133: the dsl.If condition, evaluated once the reducer's output exists.
ConditionalDeployment ==
    /\ conditional_deployment = "pending"
    /\ Succeeded(best_model_selection_task)
    /\ conditional_deployment' =
         IF DeployCondition(best_model_selection_task.best_f1_score, deploy_params.f1_score)
         THEN "true" ELSE "false"
    /\ UNCHANGED <<model_names, deploy_params, get_data_component_task, train_data_prep_task,
                   test_data_prep_task, train_task, test_task, finish_order,
                   best_model_selection_task, bias_detection_task, registry_task,
                   deployment_task>>

\* Lines 134-140.
RegisterModel ==
    /\ registry_task = Pending
    /\ conditional_deployment = "true"
    /\ \E ok \in BOOLEAN :
         registry_task' =
            IF ok THEN [status |-> "succeeded",
                        model_artifact |-> best_model_selection_task.best_model,
                        registered_model_artifact |->
                            [registered |-> best_model_selection_task.best_model]]
            ELSE Failed
    /\ UNCHANGED <<model_names, deploy_params, get_data_component_task, train_data_prep_task,
                   test_data_prep_task, train_task, test_task, finish_order,
                   best_model_selection_task, bias_detection_task, conditional_deployment,
                   deployment_task>>

\* deploy_model_component given the selection's best_model instead of the
\* registry's registered_model_artifact: it no longer waits for the registration.
DeployModelFromSelection ==
    /\ deployment_task = Pending
    /\ conditional_deployment = "true"
    /\ \E ok \in BOOLEAN :
         deployment_task' =
            IF ok THEN [status |-> "succeeded", model |-> best_model_selection_task.best_model]
            ELSE Failed
    /\ UNCHANGED <<model_names, deploy_params, get_data_component_task, train_data_prep_task,
                   test_data_prep_task, train_task, test_task, finish_order,
                   best_model_selection_task, bias_detection_task, conditional_deployment,
                   registry_task>>

\* Lines 141-151.
DeployModel ==
    /\ deployment_task = Pending
    /\ conditional_deployment = "true"
    /\ Succeeded(registry_task)
    /\ \E ok \in BOOLEAN :
         deployment_task' =
            IF ok THEN [status |-> "succeeded", model |-> registry_task.registered_model_artifact]
            ELSE Failed
    /\ UNCHANGED <<model_names, deploy_params, get_data_component_task, train_data_prep_task,
                   test_data_prep_task, train_task, test_task, finish_order,
                   best_model_selection_task, bias_detection_task, conditional_deployment,
                   registry_task>>

\* ============================================================ specifications
\* One invocation of the test component.
Init == ComponentInit /\ PipelineIdle
Next ==
    \/ Setup /\ UNCHANGED pipelineVars
    \/ NotifyStarted /\ UNCHANGED pipelineVars
    \/ Evaluate /\ UNCHANGED pipelineVars
    \/ Persist /\ UNCHANGED pipelineVars
    \/ NotifySuccess /\ UNCHANGED pipelineVars
    \/ Return /\ UNCHANGED pipelineVars
    \/ HandleException /\ UNCHANGED pipelineVars
Spec == Init /\ [][Next]_vars

\* One run of the pipeline.
InitPipeline == ComponentIdle /\ PipelineInit
NextPipeline ==
    \/ GetData /\ UNCHANGED componentVars
    \/ \E i \in Branches : TrainDataPrep(i) /\ UNCHANGED componentVars
    \/ \E i \in Branches : TestDataPrep(i) /\ UNCHANGED componentVars
    \/ \E i \in Branches : Train(i) /\ UNCHANGED componentVars
    \/ \E i \in Branches : Test(i) /\ UNCHANGED componentVars
    \/ SelectBestModel /\ UNCHANGED componentVars
    \/ BiasDetection /\ UNCHANGED componentVars
    \/ ConditionalDeployment /\ UNCHANGED componentVars
    \/ RegisterModel /\ UNCHANGED componentVars
    \/ DeployModel /\ UNCHANGED componentVars
SpecPipeline == InitPipeline /\ [][NextPipeline]_vars

\* select_best_model applied to arbitrary metrics records: every branch has
\* finished, and the record of a branch holds any score, or lacks the f1 field.
MetricsRecords(name) ==
    {[huggingface_model_name |-> name, f1 |-> f] : f \in 0..MaxScore}
        \cup {[huggingface_model_name |-> name]}

InitSelect ==
    /\ ComponentIdle
    /\ model_names \in {SubSeq(ModelPool, 1, n) : n \in 0..MaxCandidates}
    /\ deploy_params = [deploy |-> None, f1_score |-> 0]
    /\ get_data_component_task =
          [status |-> "succeeded", train_data |-> Artifact("train_data", 0),
           holdout_data |-> Artifact("holdout_data", 0)]
    /\ train_data_prep_task =
          [i \in Branches |-> [status |-> "succeeded", tf_dataset |-> Artifact("train_tf_dataset", i)]]
    /\ test_data_prep_task =
          [i \in Branches |-> [status |-> "succeeded", tf_dataset |-> Artifact("holdout_tf_dataset", i)]]
    /\ train_task =
          [i \in Branches |-> [status |-> "succeeded", model_output |-> Artifact("model_output", i)]]
    /\ \E recs \in [Branches -> UNION {MetricsRecords(ModelPool[i]) : i \in Branches}] :
          /\ \A i \in Branches : recs[i]["huggingface_model_name"] = model_names[i]
          /\ test_task = [i \in Branches |->
                [ status |-> "succeeded", metrics_artifact |-> recs[i],
                  reusable_model |-> Artifact("model_output", i),
                  f1_score |-> F1OrZero(recs[i]) ]]
    /\ finish_order \in {o \in [Branches -> Branches] : \A i, j \in Branches : o[i] = o[j] => i = j}
    /\ best_model_selection_task = Pending
    /\ bias_detection_task = Pending
    /\ conditional_deployment = "absent"
    /\ registry_task = Pending
    /\ deployment_task = Pending
NextSelect == SelectBestModel /\ UNCHANGED componentVars
SpecSelect == InitSelect /\ [][NextSelect]_vars

\* =================================================================== claims
\* ---- test_huggingface_model_component (Spec)
Finished == pc \in {"returned", "raised"}
ProcessingFaults == {"evaluate", "log", "end_run"}
MessageStrs == [k \in DOMAIN notifications |-> notifications[k].message_str]

\* C3 (as stated): with an endpoint configured, a run that succeeds and a run that
\* fails with a processing exception each attempt exactly one notification; with
\* no endpoint configured, none is attempted.
C3_ExactlyOneNotification ==
    /\ (pc = "returned" /\ Truthy(slack_url)) => Len(notifications) = 1
    /\ (pc = "raised" /\ fault \in ProcessingFaults /\ Truthy(slack_url))
          => Len(notifications) = 1
    /\ ~Truthy(slack_url) => Len(notifications) = 0

\* C3 (amended): with an endpoint configured, a finished run has attempted exactly
\* two notifications: 'started', then exactly one outcome notification
\* ('Successfully Tested' when it returns, 'Failed to Test' when a processing
\* exception was caught); a run that raises during set-up, before the try block,
\* and any run with no endpoint (None or "") attempt none.
C3_StartedThenOneOutcomeNotification ==
    /\ (pc = "returned" /\ Truthy(slack_url))
          => MessageStrs = <<"started", "Successfully Tested">>
    /\ (pc = "raised" /\ fault \in ProcessingFaults /\ Truthy(slack_url))
          => MessageStrs = <<"started", "Failed to Test">>
    /\ (pc = "raised" /\ fault = "setup") => notifications = <<>>
    /\ ~Truthy(slack_url) => notifications = <<>>

C3_Witness ==
    /\ pc = "raised" /\ fault = "evaluate" /\ slack_url = WebhookUrl
    /\ Len(notifications) = 2

\* C4: whatever the transport does, and so also when every post fails, a run the
\* environment lets succeed writes the metrics record of its test set and returns
\* that test set's (precision, recall, f1), and a run with a processing exception
\* ends raising that same exception.
ExceptionOf(f) ==
    CASE f = "setup" -> "SetupError"
      [] f = "evaluate" -> "ProcessingError"
      [] f = "log" -> "SinkError"
      [] f = "end_run" -> "EndRunError"
      [] OTHER -> None

C4_NotificationFailureKeepsOutcome ==
    Finished =>
        IF fault = "none"
        THEN /\ pc = "returned"
             /\ returned = << precision_score(y_true, y_pred, "weighted"),
                              recall_score(y_true, y_pred, "weighted"),
                              f1_score(y_true, y_pred, "weighted") >>
             /\ metrics_artifact = MetricsInformation(ComputeScores(y_true, y_pred))
        ELSE /\ pc = "raised"
             /\ raised = ExceptionOf(fault)

AllPostsFailed ==
    /\ Len(notifications) = 2
    /\ \A k \in DOMAIN notifications : ~notifications[k].delivered

C4_Witness == pc = "returned" /\ AllPostsFailed /\ returned[3] > 0

\* C7 (as stated): the three per-label arrays of the written record each have
\* length K = len(label_map), also when a label of the map occurs neither among
\* the true labels nor among the predictions.
RecordWritten == "f1_per_label" \in DOMAIN metrics_artifact

C7_PerLabelArraysHaveLengthK ==
    RecordWritten =>
        /\ Len(metrics_artifact.precision_per_label) = Len(label_map)
        /\ Len(metrics_artifact.recall_per_label) = Len(label_map)
        /\ Len(metrics_artifact.f1_per_label) = Len(label_map)

\* C8: once computed, the confusion matrix is K by K for a label map of size K,
\* its labels are the label names in the order of their label-map values, and a
\* label that occurs neither among the true labels nor among the predictions has
\* an all-zero row and an all-zero column.
MatrixComputed == pc \in {"persist", "notify_success", "return", "returned"}
Seen(v) == v \in Range(y_true) \cup Range(y_pred)

C8_ConfusionMatrixKByKInLabelMapOrder ==
    MatrixComputed =>
        LET K == Len(label_map)
            m == classification_metrics.matrix
            labels == classification_metrics.labels
        IN /\ Len(labels) = K
           /\ \A p \in 1..K : DictGet(label_map, labels[p]) = p - 1
           /\ Len(m) = K
           /\ \A i \in 1..K : Len(m[i]) = K
           /\ \A p \in 1..K : ~Seen(p - 1) =>
                 \A q \in 1..K : m[p][q] = 0 /\ m[q][p] = 0

C8_Witness ==
    /\ MatrixComputed
    /\ Len(label_map) = 2
    /\ \E v \in Range(DictValues(label_map)) : ~Seen(v)
    /\ Len(classification_metrics.matrix) = 2

\* C10 (as stated): every notification carries the styling of the actual outcome:
\* the one sent from the exception handler has the failure color and the failure
\* marker, and success styling is used only for the 'started' and 'Successfully
\* Tested' notifications.
C10_NotificationStyleMatchesOutcome ==
    \A k \in DOMAIN notifications :
        LET n == notifications[k]
        IN IF n.message_str = "Failed to Test"
           THEN n.color = "FF0000" /\ n.marker = ":large_red_circle:"
           ELSE n.color = "#36a64f" /\ n.marker = ":large_green_circle:"

\* ---- training_pipeline (SpecPipeline) and select_best_model (SpecSelect)
\* No task of the pipeline can run any more.
Quiescent == ~ENABLED NextPipeline
Selected == Succeeded(best_model_selection_task)
BestF1 == best_model_selection_task.best_f1_score
Threshold == deploy_params.f1_score

\* C1 (as stated): for every run configuration, once the run has come to rest with
\* a best_f1_score, the registration stage has run (and deployment after a
\* successful registration) if and only if best_f1_score > threshold.
C1_StagesRunIffScoreAboveThreshold ==
    (Selected /\ Quiescent) =>
        /\ Ran(registry_task) <=> BestF1 > Threshold
        /\ Ran(deployment_task) <=> (BestF1 > Threshold /\ Succeeded(registry_task))

\* C1 (amended): registration runs only if deploy_params["deploy"] == True and
\* best_f1_score > threshold (so never on equality), deployment runs only after a
\* successful registration; and in a run that has come to rest with a
\* best_f1_score, registration has run exactly if the deploy flag is True and
\* best_f1_score > threshold, deployment exactly if registration succeeded.
C1_StagesRunIffDeployFlagAndScoreAboveThreshold ==
    /\ Ran(registry_task) =>
          PyEqTrue(deploy_params.deploy) /\ Selected /\ BestF1 > Threshold
    /\ Ran(deployment_task) => Succeeded(registry_task)
    /\ (Selected /\ Quiescent) =>
          /\ Ran(registry_task) <=> (PyEqTrue(deploy_params.deploy) /\ BestF1 > Threshold)
          /\ Ran(deployment_task) <=> Succeeded(registry_task)

C1_Witness ==
    /\ Selected /\ Quiescent
    /\ PyEqTrue(deploy_params.deploy)
    /\ BestF1 = Threshold
    /\ conditional_deployment = "false"
    /\ ~Ran(registry_task)

\* The candidate select_best_model is required to return for valid records: the
\* lowest index among the records with the greatest f1.
ValidRecords(ms) == Len(ms) >= 1 /\ \A i \in DOMAIN ms : "f1" \in DOMAIN ms[i]
FirstGreatest(ms) ==
    CHOOSE b \in DOMAIN ms :
        /\ \A i \in DOMAIN ms : ms[i]["f1"] <= ms[b]["f1"]
        /\ \A i \in DOMAIN ms : ms[i]["f1"] = ms[b]["f1"] => b <= i

\* C2: for every non-empty sequence of metrics records (each with its f1), the
\* selection returns the candidate with the greatest f1, the lowest-indexed one
\* among several with the greatest f1, and best_f1_score is that record's f1.
C2_SelectsFirstGreatestF1 ==
    LET ms == [i \in Branches |-> test_task[i].metrics_artifact]
    IN (Ran(best_model_selection_task) /\ ValidRecords(ms)) =>
          LET b == FirstGreatest(ms)
          IN /\ Selected
             /\ best_model_selection_task.best_model_name = model_names[b]
             /\ best_model_selection_task.best_model = Artifact("model_output", b)
             /\ best_model_selection_task.best_model_test_data = Artifact("holdout_tf_dataset", b)
             /\ BestF1 = ms[b]["f1"]

C2_Witness ==
    /\ Selected
    /\ Len(model_names) = 3
    /\ test_task[1].metrics_artifact["f1"] < test_task[2].metrics_artifact["f1"]
    /\ test_task[2].metrics_artifact["f1"] = test_task[3].metrics_artifact["f1"]
    /\ best_model_selection_task.best_model_name = model_names[2]

\* C5: over zero candidates, or when some metrics record lacks the f1 field, the
\* selection ends in a reported error: it yields no winner, no placeholder and no
\* score.
C5_NoWinnerOnEmptyOrMissingF1 ==
    LET ms == [i \in Branches |-> test_task[i].metrics_artifact]
    IN (Ran(best_model_selection_task) /\ ~ValidRecords(ms)) =>
          /\ best_model_selection_task.status = "failed"
          /\ "error" \in DOMAIN best_model_selection_task
          /\ DOMAIN best_model_selection_task \cap
                {"best_model_name", "best_model", "best_model_test_data", "best_f1_score"} = {}

C5_Witness ==
    /\ Ran(best_model_selection_task)
    /\ Len(model_names) = 2
    /\ "f1" \in DOMAIN test_task[1].metrics_artifact
    /\ "f1" \notin DOMAIN test_task[2].metrics_artifact
    /\ best_model_selection_task.status = "failed"

\* C6: whatever the order in which the branches completed, the three lists handed
\* to select_best_model hold at each index i the record, the holdout dataset and
\* the model of branch i, and the selected name, model and test data belong to
\* one and the same branch.
C6_CollectedListsAlignedByCandidate ==
    Ran(best_model_selection_task) =>
        LET ms == Collected(test_task, "metrics_artifact")
            ds == Collected(test_data_prep_task, "tf_dataset")
            mods == Collected(test_task, "reusable_model")
        IN /\ Len(ms) = Len(model_names) /\ Len(ds) = Len(model_names)
           /\ Len(mods) = Len(model_names)
           /\ \A i \in Branches :
                 /\ ms[i]["huggingface_model_name"] = model_names[i]
                 /\ ds[i] = Artifact("holdout_tf_dataset", i)
                 /\ mods[i] = Artifact("model_output", i)
           /\ Selected =>
                 \E b \in Branches :
                    /\ best_model_selection_task.best_model_name = model_names[b]
                    /\ best_model_selection_task.best_model = train_task[b].model_output
                    /\ best_model_selection_task.best_model_test_data
                          = test_data_prep_task[b].tf_dataset
                    /\ BestF1 = test_task[b].f1_score

C6_Witness ==
    /\ Selected
    /\ finish_order = <<2, 1>>
    /\ best_model_selection_task.best_model = Artifact("model_output", 1)

\* C9: select_best_model has started only if every one of the N test branches has
\* finished successfully and its metrics record is written.
C9_ReducerRunsAfterAllBranches ==
    Ran(best_model_selection_task) =>
        \A i \in Branches :
            /\ Succeeded(test_task[i])
            /\ "f1" \in DOMAIN Output(test_task[i], "metrics_artifact")

C9_Witness ==
    /\ Ran(best_model_selection_task)
    /\ Len(model_names) >= 2
    /\ \A i \in Branches : Succeeded(test_task[i])

\* C11: deploy_model_component has run only if register_model_component has
\* completed successfully in the same run, and register_model_component only if
\* select_best_model has; the registered model is the selection's best_model, and
\* a deployed model is the artifact the registration produced for that best_model.
C11_DeployAfterRegisterAfterSelect ==
    /\ Ran(deployment_task) => Succeeded(registry_task)
    /\ Ran(registry_task) => Selected
    /\ Succeeded(registry_task) =>
          /\ registry_task.model_artifact = best_model_selection_task.best_model
          /\ \E b \in Branches :
                best_model_selection_task.best_model = train_task[b].model_output
    /\ Succeeded(deployment_task) =>
          /\ deployment_task.model = registry_task.registered_model_artifact
          /\ deployment_task.model = [registered |-> best_model_selection_task.best_model]

C11_Witness ==
    /\ Succeeded(deployment_task)
    /\ Succeeded(registry_task)
    /\ Len(model_names) = 2
    /\ best_model_selection_task.best_model = Artifact("model_output", 2)
    /\ deployment_task.model = [registered |-> Artifact("model_output", 2)]

====
